---- MODULE Spec2Model ----
(***************************************************************************)
(* MicroShell (src/main.py): the path resolver, the recursive filesystem   *)
(* operations and the line-oriented command interpreter, as a state        *)
(* machine.  Strings are TLA+ strings; a character is a string of length   *)
(* one.  The filesystem is a function from canonical absolute paths to     *)
(* nodes, behind the uos primitives the program calls.                     *)
(***************************************************************************)
EXTENDS Integers, Sequences, FiniteSets, TLC

VARIABLES
    CURRENT_DIR,    \* main.py:14
    SHELL_RUNNING,  \* main.py:15
    IS_SCRIPTING,   \* main.py:16
    ALIASES,        \* main.py:17
    ENV,            \* main.py:19
    fs,             \* the device filesystem behind uos / open
    stack,          \* the do_exec calls in progress, innermost last
    last,           \* what the last step of the interpreter did
    steps,          \* console reads made so far
    faulty,         \* paths whose modification fails with EIO
    listRev,        \* whether uos.listdir yields names in descending order
    call,           \* the filesystem operation under test and its arguments
    res             \* the result of that operation

vars == <<CURRENT_DIR, SHELL_RUNNING, IS_SCRIPTING, ALIASES, ENV, fs, stack,
          last, steps, faulty, listRev, call, res>>

(***************************************************************************)
(* Bounds of the model.                                                    *)
(***************************************************************************)
MaxSteps == 5
MaxDepth == 4

\* cd commands in a run of SpecPath
MaxCd == 3

\* cp and mv commands in a run of SpecMove
MaxMoves == 2

\* lines typed in a run of SpecAlias
MaxAlias == 3

MaxEnv == 3

MaxEdits == 5

(***************************************************************************)
(* Python string methods.                                                  *)
(***************************************************************************)
Ch(s, i) == SubSeq(s, i, i)

startswith(s, p) == Len(s) >= Len(p) /\ SubSeq(s, 1, Len(p)) = p

endswith(s, p) == Len(s) >= Len(p) /\ SubSeq(s, Len(s) - Len(p) + 1, Len(s)) = p

IsSpace(c) == c \in {" ", "\n", "\t", "\r"}

RECURSIVE lstrip(_)
lstrip(s) == IF Len(s) > 0 /\ IsSpace(Ch(s, 1)) THEN lstrip(Tail(s)) ELSE s

RECURSIVE rstrip(_)
rstrip(s) ==
    IF Len(s) > 0 /\ IsSpace(Ch(s, Len(s)))
    THEN rstrip(SubSeq(s, 1, Len(s) - 1)) ELSE s

strip(s) == rstrip(lstrip(s))

RECURSIVE SplitFrom(_, _, _, _, _)
SplitFrom(s, c, i, cur, acc) ==
    IF i > Len(s) THEN Append(acc, cur)
    ELSE IF Ch(s, i) = c THEN SplitFrom(s, c, i + 1, "", Append(acc, cur))
    ELSE SplitFrom(s, c, i + 1, cur \o Ch(s, i), acc)

\* s.split(c): every piece between separators, empty pieces included
split(s, c) == SplitFrom(s, c, 1, "", <<>>)

RECURSIVE WordsFrom(_, _, _, _)
WordsFrom(s, i, cur, acc) ==
    IF i > Len(s) THEN (IF cur = "" THEN acc ELSE Append(acc, cur))
    ELSE IF IsSpace(Ch(s, i))
         THEN WordsFrom(s, i + 1, "", IF cur = "" THEN acc ELSE Append(acc, cur))
         ELSE WordsFrom(s, i + 1, cur \o Ch(s, i), acc)

\* s.split(): the whitespace-separated words
words(s) == WordsFrom(s, 1, "", <<>>)

RECURSIVE join(_, _)
join(sep, parts) ==
    IF Len(parts) = 0 THEN ""
    ELSE IF Len(parts) = 1 THEN parts[1]
    ELSE parts[1] \o sep \o join(sep, Tail(parts))

SelectNonEmpty(parts) == SelectSeq(parts, LAMBDA p : p # "")

Upper == "ABCDEFGHIJKLMNOPQRSTUVWXYZ"
Lowercase == "abcdefghijklmnopqrstuvwxyz"
Digits == "0123456789"

InStr(c, s) == \E i \in 1..Len(s) : Ch(s, i) = c

LowerCh(c) ==
    IF InStr(c, Upper)
    THEN Ch(Lowercase, CHOOSE i \in 1..26 : Ch(Upper, i) = c) ELSE c

RECURSIVE lower(_)
lower(s) == IF s = "" THEN "" ELSE LowerCh(Ch(s, 1)) \o lower(Tail(s))

isalnum(c) == InStr(c, Upper) \/ InStr(c, Lowercase) \/ InStr(c, Digits)

\* the order of characters, for sorted()
Collation == "\t\n\r !\"#$'-./" \o Digits \o "=>" \o Upper \o "_" \o Lowercase

Rank(c) == CHOOSE i \in 1..Len(Collation) : Ch(Collation, i) = c

RECURSIVE StrLess(_, _)
StrLess(a, b) ==
    IF b = "" THEN FALSE
    ELSE IF a = "" THEN TRUE
    ELSE IF Ch(a, 1) = Ch(b, 1) THEN StrLess(Tail(a), Tail(b))
    ELSE Rank(Ch(a, 1)) < Rank(Ch(b, 1))

RECURSIVE sorted(_)
sorted(S) ==
    IF S = {} THEN <<>>
    ELSE LET m == CHOOSE x \in S : \A y \in S \ {x} : StrLess(x, y)
         IN <<m>> \o sorted(S \ {m})

Reverse(q) == [i \in 1..Len(q) |-> q[Len(q) + 1 - i]]

(***************************************************************************)
(* resolve_path, with the globals it reads as parameters.                  *)
(***************************************************************************)
RECURSIVE WalkParts(_, _)
WalkParts(parts, path_parts) ==
    IF Len(path_parts) = 0 THEN parts
    ELSE LET part == Head(path_parts)
             rest == Tail(path_parts)
         IN IF part = ".."
            THEN IF Len(parts) > 1
                 THEN WalkParts(SubSeq(parts, 1, Len(parts) - 1), rest)
                 ELSE WalkParts(parts, rest)
            ELSE IF part # "" /\ part # "."
                 THEN WalkParts(Append(parts, part), rest)
                 ELSE WalkParts(parts, rest)

\* join_cwd without the leading separator at the root
join_cwd_bare(cwd, path) ==
    IF cwd = "/" THEN path ELSE cwd \o "/" \o path

\* the plain relative token: '/' + path at the root, else cwd + '/' + path
join_cwd(cwd, path) ==
    IF cwd = "/" THEN "/" \o path ELSE cwd \o "/" \o path

resolve_path(token, cwd, env) ==
    LET path == IF startswith(token, "$") /\ Tail(token) \in DOMAIN env
                THEN env[Tail(token)] ELSE token
    IN IF startswith(path, "/") THEN path
       ELSE IF path = "." \/ path = "./" THEN cwd
       ELSE IF path = ".."
            THEN LET sp == split(cwd, "/")
                     parent == join("/", SubSeq(sp, 1, Len(sp) - 1))
                 IN IF parent # "" THEN parent ELSE "/"
       ELSE IF startswith(path, "../")
            THEN LET sp == split(cwd, "/")
                     parts == IF sp[Len(sp)] = ""
                              THEN SubSeq(sp, 1, Len(sp) - 1) ELSE sp
                     walked == WalkParts(parts, split(path, "/"))
                 IN "/" \o join("/", SelectNonEmpty(walked))
       ELSE join_cwd(cwd, path)

(***************************************************************************)
(* The filesystem behind uos and open.  A node is a directory or a file    *)
(* with its bytes; the root directory always exists.  The device resolves  *)
(* a path by its segments: empty and "." segments are skipped, ".." steps  *)
(* up, and a path with no leading "/" is taken from the root (the shell    *)
(* never calls uos.chdir).                                                 *)
(***************************************************************************)
EEXIST == 17
ENOENT == 2

Errno(name) ==
    CASE name = "EIO" -> 5
      [] name = "ENOTDIR" -> 20
      [] name = "EISDIR" -> 21
      [] name = "EINVAL" -> 22
      [] name = "ENOTEMPTY" -> 39

RECURSIVE CanonParts(_, _)
CanonParts(acc, segs) ==
    IF Len(segs) = 0 THEN acc
    ELSE LET g == Head(segs)
         IN IF g = "" \/ g = "." THEN CanonParts(acc, Tail(segs))
            ELSE IF g = ".."
                 THEN CanonParts(IF Len(acc) = 0 THEN acc
                                 ELSE SubSeq(acc, 1, Len(acc) - 1), Tail(segs))
                 ELSE CanonParts(Append(acc, g), Tail(segs))

PathParts(path) == CanonParts(<<>>, split(path, "/"))

FsCanon(path) == "/" \o join("/", PathParts(path))

FsParent(path) ==
    LET p == PathParts(path)
    IN "/" \o join("/", SubSeq(p, 1, Len(p) - 1))

FsName(path) ==
    LET p == PathParts(path) IN IF Len(p) = 0 THEN "" ELSE p[Len(p)]

Exists(f, path) == FsCanon(path) \in DOMAIN f

IsDir(f, path) == Exists(f, path) /\ f[FsCanon(path)].isdir

IsFile(f, path) == Exists(f, path) /\ ~f[FsCanon(path)].isdir

\* q lies strictly below p
Below(q, p) ==
    LET a == PathParts(p)
        b == PathParts(q)
    IN Len(b) > Len(a) /\ SubSeq(b, 1, Len(a)) = a

ChildNames(f, path) ==
    {FsName(q) : q \in {r \in DOMAIN f : r # "/" /\ FsParent(r) = FsCanon(path)}}

DirNode == [isdir |-> TRUE, data |-> ""]

FileNode(bytes) == [isdir |-> FALSE, data |-> bytes]

Put(f, p, node) == [q \in DOMAIN f \cup {p} |-> IF q = p THEN node ELSE f[q]]

Drop(f, p) == [q \in DOMAIN f \ {p} |-> f[q]]

Ok(f) == [err |-> 0, fs |-> f]

Err(f, e) == [err |-> e, fs |-> f]

\* uos.stat(path): 0, or the errno it raises
uos_stat(f, path) == IF Exists(f, path) THEN 0 ELSE ENOENT

\* uos.listdir(path): the names (read once, as a list), or the errno
uos_listdir(f, path) ==
    IF ~Exists(f, path) THEN [err |-> ENOENT, names |-> <<>>]
    ELSE IF ~IsDir(f, path) THEN [err |-> Errno("ENOTDIR"), names |-> <<>>]
    ELSE LET ns == sorted(ChildNames(f, path))
         IN [err |-> 0, names |-> IF listRev THEN Reverse(ns) ELSE ns]

\* the errno of creating or opening-for-write an entry at path, 0 if none
ParentErr(f, path) ==
    IF ~Exists(f, FsParent(path)) THEN ENOENT
    ELSE IF ~IsDir(f, FsParent(path)) THEN Errno("ENOTDIR")
    ELSE IF FsCanon(path) \in faulty THEN Errno("EIO")
    ELSE 0

uos_mkdir(f, path) ==
    IF Exists(f, path) THEN Err(f, EEXIST)
    ELSE IF ParentErr(f, path) # 0 THEN Err(f, ParentErr(f, path))
    ELSE Ok(Put(f, FsCanon(path), DirNode))

uos_remove(f, path) ==
    IF ~Exists(f, path) THEN Err(f, ENOENT)
    ELSE IF IsDir(f, path) THEN Err(f, Errno("EISDIR"))
    ELSE IF FsCanon(path) \in faulty THEN Err(f, Errno("EIO"))
    ELSE Ok(Drop(f, FsCanon(path)))

uos_rmdir(f, path) ==
    IF ~Exists(f, path) THEN Err(f, ENOENT)
    ELSE IF ~IsDir(f, path) THEN Err(f, Errno("ENOTDIR"))
    ELSE IF FsCanon(path) = "/" THEN Err(f, Errno("EINVAL"))
    ELSE IF ChildNames(f, path) # {} THEN Err(f, Errno("ENOTEMPTY"))
    ELSE IF FsCanon(path) \in faulty THEN Err(f, Errno("EIO"))
    ELSE Ok(Drop(f, FsCanon(path)))

\* open(path, 'r' / 'rb')
open_read(f, path) ==
    IF ~Exists(f, path) THEN ENOENT
    ELSE IF IsDir(f, path) THEN Errno("EISDIR")
    ELSE 0

\* open(path, 'w' / 'wb'): creates the file or truncates it
open_write(f, path) ==
    IF IsDir(f, path) THEN Err(f, Errno("EISDIR"))
    ELSE IF ParentErr(f, path) # 0 THEN Err(f, ParentErr(f, path))
    ELSE Ok(Put(f, FsCanon(path), FileNode("")))

(***************************************************************************)
(* rm_recursive and cp_recursive.  Each returns the filesystem it leaves,  *)
(* its return value and the log of what it did, in order.  exc is TRUE     *)
(* when the call ended by an exception that is not an OSError (the         *)
(* interpreter's recursion limit, MaxDepth frames here).                   *)
(***************************************************************************)
ChunkSize == 512

Event(ev, src, dest) == [ev |-> ev, src |-> src, dest |-> dest]

\* path + ('/' if not path.endswith('/') else '') + entry
sub_path(path, entry) ==
    path \o (IF ~endswith(path, "/") THEN "/" ELSE "") \o entry

\* rm_except reporting success although the removal failed
rm_except_swallowed(f, path, log) ==
    [fs |-> f, ret |-> TRUE, log |-> Append(log, Event("fail", path, ""))]

\* except OSError: print, return False
rm_except(f, path, log) ==
    [fs |-> f, ret |-> FALSE, log |-> Append(log, Event("fail", path, ""))]

RECURSIVE rm_recursive(_, _)

\* for entry in uos.listdir(path): rm_recursive(sub_path), its result dropped
RECURSIVE rm_entries(_, _, _, _)
rm_entry_done(r, path, names, log) ==
    rm_entries(r.fs, path, names, log \o r.log)

rm_entries(f, path, names, log) ==
    IF Len(names) = 0 THEN [fs |-> f, log |-> log]
    ELSE rm_entry_done(rm_recursive(f, sub_path(path, Head(names))),
                       path, Tail(names), log)

\* uos.rmdir(path) after the loop, and uos.remove(path) of a file
rm_removed(rd, f, path, log, ev) ==
    IF rd.err # 0 THEN rm_except(f, path, log)
    ELSE [fs |-> rd.fs, ret |-> TRUE, log |-> Append(log, Event(ev, path, ""))]

rm_dir(done, path) ==
    rm_removed(uos_rmdir(done.fs, path), done.fs, path, done.log, "rmdir")

rm_recursive(f, path) ==
    IF uos_stat(f, path) # 0 THEN rm_except(f, path, <<>>)
    ELSE IF IsDir(f, path)
    THEN rm_dir(rm_entries(f, path, uos_listdir(f, path).names, <<>>), path)
    ELSE rm_removed(uos_remove(f, path), f, path, <<>>, "remove")

\* except OSError: print, return False
cp_except(f, src, dest, log) ==
    [fs |-> f, ret |-> FALSE, exc |-> FALSE,
     log |-> Append(log, Event("fail", src, dest))]

\* cp_dest_path joining without the separator
cp_dest_path_nosep(dest, entry) == dest \o entry

\* dest + ('/' if not dest.endswith('/') else '') + entry
cp_dest_path(dest, entry) == sub_path(dest, entry)

Min(a, b) == IF a < b THEN a ELSE b

\* while True: buf = fin.read(512); if not buf: break; fout.write(buf)
\* fin reads the file as it is at that moment, from its own position
RECURSIVE copy_chunks(_, _, _, _)
copy_chunk(buf, f, src, dest, pos) ==
    IF buf = "" THEN f
    ELSE copy_chunks(Put(f, FsCanon(dest), FileNode(f[FsCanon(dest)].data \o buf)),
                     src, dest, pos + Len(buf))

\* the chunk loop leaving at the first chunk shorter than 512 bytes, before
\* writing it
copy_chunks_fullonly(f, src, dest, pos) ==
    IF Len(f[FsCanon(src)].data) - pos < ChunkSize THEN f
    ELSE copy_chunk(SubSeq(f[FsCanon(src)].data, pos + 1, pos + ChunkSize),
                    f, src, dest, pos)

copy_chunks(f, src, dest, pos) ==
    copy_chunk(SubSeq(f[FsCanon(src)].data, pos + 1,
                      Min(pos + ChunkSize, Len(f[FsCanon(src)].data))),
               f, src, dest, pos)

RECURSIVE cp_recursive(_, _, _, _)

\* for entry in uos.listdir(src): cp_recursive(src_path, dest_path), its
\* result dropped; an exception that is not an OSError ends the loop
RECURSIVE cp_entries(_, _, _, _, _, _)
cp_entry_done(r, src, dest, names, log, depth) ==
    IF r.exc THEN [fs |-> r.fs, log |-> log \o r.log, exc |-> TRUE]
    ELSE cp_entries(r.fs, src, dest, names, log \o r.log, depth)

cp_entries(f, src, dest, names, log, depth) ==
    IF Len(names) = 0 THEN [fs |-> f, log |-> log, exc |-> FALSE]
    ELSE cp_entry_done(cp_recursive(f, sub_path(src, Head(names)),
                                    cp_dest_path(dest, Head(names)), depth + 1),
                       src, dest, Tail(names), log, depth)

\* return True after the loop (the loop's own results are not looked at)
cp_dir_done(done) ==
    [fs |-> done.fs, ret |-> ~done.exc, exc |-> done.exc, log |-> done.log]

\* uos.mkdir(dest), EEXIST tolerated, then the loop over uos.listdir(src)
cp_dir(mk, f, src, dest, depth) ==
    IF mk.err # 0 /\ mk.err # EEXIST THEN cp_except(f, src, dest, <<>>)
    ELSE cp_dir_done(
             cp_entries(mk.fs, src, dest, uos_listdir(mk.fs, src).names,
                        <<Event(IF mk.err = 0 THEN "mkdir" ELSE "exists",
                                src, dest)>>,
                        depth))

\* with open(src, 'rb') as fin: with open(dest, 'wb') as fout: the chunk loop
cp_file(ow, f, src, dest) ==
    IF ow.err # 0 THEN cp_except(f, src, dest, <<>>)
    ELSE [fs |-> copy_chunks(ow.fs, src, dest, 0), ret |-> TRUE,
          exc |-> FALSE, log |-> <<Event("file", src, dest)>>]

cp_recursive(f, src, dest, depth) ==
    IF depth > MaxDepth
    THEN [fs |-> f, ret |-> FALSE, exc |-> TRUE, log |-> <<>>]
    ELSE IF uos_stat(f, src) # 0 THEN cp_except(f, src, dest, <<>>)
    ELSE IF IsDir(f, src) THEN cp_dir(uos_mkdir(f, dest), f, src, dest, depth)
    ELSE IF open_read(f, src) # 0 THEN cp_except(f, src, dest, <<>>)
    ELSE cp_file(open_write(f, dest), f, src, dest)

(***************************************************************************)
(* du_recursive(path).  dev is the device as the scan meets it: dsize the  *)
(* size stat reports for a directory, gone the entries that vanish after   *)
(* being listed (their stat raises ENOENT), bad the entries whose stat     *)
(* raises another error.  The call returns ret, with warn the paths it     *)
(* printed a warning for and failed whether it ended in its except branch. *)
(***************************************************************************)
\* uos.stat(path) during the scan: 0 or the errno raised
du_stat(f, path, dev) ==
    IF FsCanon(path) \in dev.gone THEN ENOENT
    ELSE IF FsCanon(path) \in dev.bad THEN Errno("EIO")
    ELSE uos_stat(f, path)

\* stats[6]
stat_size(f, path, dev) ==
    IF IsDir(f, path) THEN dev.dsize ELSE Len(f[FsCanon(path)].data)

\* except OSError as e: the warning unless e.args[0] == 2; return 0
du_except(path, errno) ==
    [ret |-> 0, warn |-> IF errno # ENOENT THEN {path} ELSE {}, failed |-> TRUE]

\* total_size += du_recursive(sub_path), zeroing the total after a failed child
du_add_reset(acc, r) ==
    [ret |-> IF r.failed THEN 0 ELSE acc.ret + r.ret,
     warn |-> acc.warn \cup r.warn, failed |-> FALSE]

\* total_size += du_recursive(sub_path)
du_add(acc, r) ==
    [ret |-> acc.ret + r.ret, warn |-> acc.warn \cup r.warn, failed |-> FALSE]

\* total_size += stats[6] for the directory itself, left out
du_own_none(size) == [ret |-> 0, warn |-> {}, failed |-> FALSE]

\* total_size += stats[6]
du_own(size) == [ret |-> size, warn |-> {}, failed |-> FALSE]

RECURSIVE du_recursive(_, _, _)
RECURSIVE du_entries(_, _, _, _, _)
\* for entry in uos.listdir(path): ...
du_entries(f, path, names, dev, acc) ==
    IF Len(names) = 0 THEN acc
    ELSE IF Head(names) \in {".", ".."}
    THEN du_entries(f, path, Tail(names), dev, acc)
    ELSE du_entries(f, path, Tail(names), dev,
                    du_add(acc, du_recursive(f, sub_path(path, Head(names)), dev)))

du_dir(f, path, dev, ls) ==
    IF ls.err # 0 THEN du_except(path, ls.err)
    ELSE du_entries(f, path, ls.names, dev, du_own(stat_size(f, path, dev)))

du_recursive(f, path, dev) ==
    IF du_stat(f, path, dev) # 0 THEN du_except(path, du_stat(f, path, dev))
    ELSE IF IsDir(f, path) THEN du_dir(f, path, dev, uos_listdir(f, path))
    ELSE du_own(stat_size(f, path, dev))

(***************************************************************************)
(* uos.rename(src, dst): one call, the whole subtree moves with its root.  *)
(***************************************************************************)
Moved(f, src, dst) ==
    LET a == FsCanon(src)
        b == FsCanon(dst)
        gone == {q \in DOMAIN f : q = a \/ Below(q, a) \/ q = b \/ Below(q, b)}
        image(q) == FsCanon(b \o "/" \o join("/", SubSeq(PathParts(q),
                                        Len(PathParts(a)) + 1, Len(PathParts(q)))))
        from == {q \in DOMAIN f : q = a \/ Below(q, a)}
    IN [r \in (DOMAIN f \ gone) \cup {image(q) : q \in from} |->
          IF \E q \in from : image(q) = r
          THEN f[CHOOSE q \in from : image(q) = r] ELSE f[r]]

uos_rename(f, src, dst) ==
    IF ~Exists(f, src) THEN Err(f, ENOENT)
    ELSE IF FsCanon(src) = FsCanon(dst) THEN Ok(f)
    ELSE IF FsCanon(src) = "/" \/ Below(dst, src) THEN Err(f, Errno("EINVAL"))
    ELSE IF ~Exists(f, FsParent(dst)) THEN Err(f, ENOENT)
    ELSE IF ~IsDir(f, FsParent(dst)) THEN Err(f, Errno("ENOTDIR"))
    ELSE IF IsDir(f, dst) /\ ~IsDir(f, src) THEN Err(f, Errno("EISDIR"))
    ELSE IF IsFile(f, dst) /\ IsDir(f, src) THEN Err(f, Errno("ENOTDIR"))
    ELSE IF IsDir(f, dst) /\ ChildNames(f, dst) # {}
         THEN Err(f, Errno("ENOTEMPTY"))
    ELSE IF FsCanon(src) \in faulty \/ FsCanon(dst) \in faulty
         THEN Err(f, Errno("EIO"))
    ELSE Ok(Moved(f, src, dst))

(***************************************************************************)
(* The interpreter.  A handler takes the session s (the globals, the       *)
(* filesystem, the do_exec calls in progress) and the token list, and      *)
(* returns the session it leaves: cmd is the handler that ran, msg what it *)
(* printed last, raised whether it ended by an exception that it did not   *)
(* catch itself.                                                           *)
(***************************************************************************)
Say(s, m) == [s EXCEPT !.msg = m]

Raise(s, m) == [s EXCEPT !.msg = m, !.raised = TRUE]

\* text[:i] + value + text[j:] at each "$name" with name bound, left to right
\* the scan of the name stopping at an underscore
RECURSIVE VarEnd_alnum(_, _)
VarEnd_alnum(text, j) ==
    IF j <= Len(text) /\ isalnum(Ch(text, j))
    THEN VarEnd_alnum(text, j + 1) ELSE j

RECURSIVE VarEnd(_, _)
VarEnd(text, j) ==
    IF j <= Len(text) /\ (isalnum(Ch(text, j)) \/ Ch(text, j) = "_")
    THEN VarEnd(text, j + 1) ELSE j

RECURSIVE ExpandFrom(_, _, _)
ExpandFrom(text, i, env) ==
    IF i > Len(text) THEN text
    ELSE IF Ch(text, i) = "$"
    THEN LET j == VarEnd(text, i + 1)
             var_name == SubSeq(text, i + 1, j - 1)
         IN IF var_name \in DOMAIN env
            THEN ExpandFrom(SubSeq(text, 1, i - 1) \o env[var_name]
                                \o SubSeq(text, j, Len(text)),
                            i + Len(env[var_name]), env)
            ELSE ExpandFrom(text, i + 1, env)
    ELSE ExpandFrom(text, i + 1, env)

expand_variables(text, env) == ExpandFrom(text, 1, env)

\* s.split('=', 1)
IndexOf(t, c) ==
    IF InStr(c, t) THEN CHOOSE i \in 1..Len(t) :
                            Ch(t, i) = c /\ \A j \in 1..(i - 1) : Ch(t, j) # c
    ELSE 0

split1(t, c) ==
    <<SubSeq(t, 1, IndexOf(t, c) - 1), SubSeq(t, IndexOf(t, c) + 1, Len(t))>>

\* s.strip("'\"")
RECURSIVE strip_quotes(_)
strip_quotes(t) ==
    IF Len(t) > 0 /\ Ch(t, 1) \in {"'", "\""} THEN strip_quotes(Tail(t))
    ELSE IF Len(t) > 0 /\ Ch(t, Len(t)) \in {"'", "\""}
         THEN strip_quotes(SubSeq(t, 1, Len(t) - 1))
    ELSE t

Bind(m, k, v) == [n \in DOMAIN m \cup {k} |-> IF n = k THEN v ELSE m[n]]

Unbind(m, k) == [n \in DOMAIN m \ {k} |-> m[n]]

\* do_export storing whatever follows the "=", an empty value included
do_export_anyvalue(s, args) ==
    IF Len(args) = 1 THEN Say(s, "env")
    ELSE IF InStr("=", args[2])
    THEN LET name == strip(split1(args[2], "=")[1])
             value == strip_quotes(strip(split1(args[2], "=")[2]))
         IN IF name = "" THEN Say(s, "Usage: export")
            ELSE Say([s EXCEPT !.ENV = Bind(s.ENV, name, value)], "Exported")
    ELSE IF Len(args) = 2
    THEN IF args[2] \in DOMAIN s.ENV
         THEN Say([s EXCEPT !.ENV = Unbind(s.ENV, args[2])], "unset")
         ELSE Say(s, "Error: variable not found")
    ELSE Say(s, "Usage: export")

do_export(s, args) ==
    IF Len(args) = 1 THEN Say(s, "env")
    ELSE IF InStr("=", args[2])
    THEN LET name == strip(split1(args[2], "=")[1])
             value == strip_quotes(strip(split1(args[2], "=")[2]))
         IN IF name = "" \/ value = "" THEN Say(s, "Usage: export")
            ELSE Say([s EXCEPT !.ENV = Bind(s.ENV, name, value)], "Exported")
    ELSE IF Len(args) = 2
    THEN IF args[2] \in DOMAIN s.ENV
         THEN Say([s EXCEPT !.ENV = Unbind(s.ENV, args[2])], "unset")
         ELSE Say(s, "Error: variable not found")
    ELSE Say(s, "Usage: export")

do_alias(s, args) ==
    IF Len(args) = 1 THEN Say(s, "aliases")
    ELSE IF InStr("=", args[2])
    THEN LET name == strip(split1(args[2], "=")[1])
             cmd == strip_quotes(strip(split1(args[2], "=")[2]))
         IN IF name = "" \/ cmd = "" THEN Say(s, "Usage: alias")
            ELSE Say([s EXCEPT !.ALIASES = Bind(s.ALIASES, name, cmd)],
                     "Alias set")
    ELSE IF args[2] \in {"-u", "--unset"}
    THEN IF Len(args) # 3 THEN Say(s, "Usage: alias -u")
         ELSE IF args[3] \in DOMAIN s.ALIASES
              THEN Say([s EXCEPT !.ALIASES = Unbind(s.ALIASES, args[3])],
                       "Alias removed")
              ELSE Say(s, "Alias not found")
    ELSE IF Len(args) = 2 THEN Say(s, "alias shown")
    ELSE Say(s, "Usage: alias")

\* do_cd assigning the resolved path without looking at the filesystem
do_cd_unchecked(s, args) ==
    IF Len(args) < 2 THEN Say(s, "Current directory")
    ELSE Say([s EXCEPT !.CURRENT_DIR =
                  resolve_path(args[2], s.CURRENT_DIR, s.ENV)],
             "Changed directory")

do_cd(s, args) ==
    IF Len(args) < 2 THEN Say(s, "Current directory")
    ELSE LET resolved_path == resolve_path(args[2], s.CURRENT_DIR, s.ENV)
         IN IF uos_stat(s.fs, resolved_path) # 0
            THEN Say(s, "Error: Directory not found")
            ELSE IF IsDir(s.fs, resolved_path)
            THEN Say([s EXCEPT !.CURRENT_DIR =
                         IF Len(resolved_path) > 1 /\ endswith(resolved_path, "/")
                         THEN SubSeq(resolved_path, 1, Len(resolved_path) - 1)
                         ELSE resolved_path],
                     "Changed directory")
            ELSE Say(s, "Error: not a directory")

mkdir_done(s, mk) ==
    IF mk.err # 0 THEN Say(s, "Error creating directory")
    ELSE Say([s EXCEPT !.fs = mk.fs], "Directory created")

do_mkdir(s, args) ==
    IF Len(args) < 2 THEN Say(s, "Usage: mkdir")
    ELSE mkdir_done(s, uos_mkdir(s.fs, resolve_path(args[2], s.CURRENT_DIR, s.ENV)))

\* uos.rmdir(path) / uos.remove(path) in do_rm, and its except OSError
rm_done(s, r, m) ==
    IF r.err # 0 THEN Say(s, "Error removing")
    ELSE Say([s EXCEPT !.fs = r.fs], m)

rm_path(s, path, recursive_force) ==
    IF uos_stat(s.fs, path) # 0 THEN Say(s, "Error removing")
    ELSE IF IsDir(s.fs, path)
    THEN IF recursive_force
         THEN Say([s EXCEPT !.fs = rm_recursive(s.fs, path).fs], "rm_recursive")
         ELSE rm_done(s, uos_rmdir(s.fs, path), "Removed empty directory")
    ELSE rm_done(s, uos_remove(s.fs, path), "Removed file")

RmFlags == {"-rf", "-fr"}

rm_args(s, args, path_args) ==
    IF Len(args) < 2 \/ Len(path_args) = 0 THEN Say(s, "Usage: rm")
    ELSE rm_path(s, resolve_path(path_args[1], s.CURRENT_DIR, s.ENV),
                 \E i \in 1..Len(args) : args[i] \in RmFlags)

do_rm(s, args) ==
    rm_args(s, args, SelectSeq(Tail(args), LAMBDA a : a \notin RmFlags))

\* src_path.split('/')[-1]
last_part(parts) == parts[Len(parts)]

basename(path) == last_part(split(path, "/"))

\* dest/<basename of source> when dest_path stats as a directory
into_dir(dest_path, src_filename) ==
    IF endswith(dest_path, "/") THEN dest_path \o src_filename
    ELSE dest_path \o "/" \o src_filename

\* if cp_recursive(src_path, final_dest_path): ... else: ...
cp_done(s, r) ==
    IF r.exc THEN Raise([s EXCEPT !.fs = r.fs], "recursion depth")
    ELSE Say([s EXCEPT !.fs = r.fs],
             IF r.ret THEN "Copy successful" ELSE "Copy failed")

cp_paths(s, src_path, dest_path, src_filename) ==
    IF uos_stat(s.fs, src_path) # 0 THEN Say(s, "Error: Source not found")
    ELSE IF IsDir(s.fs, dest_path)
    THEN IF src_filename = "" THEN Say(s, "Error: Cannot copy root directory")
         ELSE cp_done(s, cp_recursive(s.fs, src_path,
                                      into_dir(dest_path, src_filename), 1))
    ELSE cp_done(s, cp_recursive(s.fs, src_path, dest_path, 1))

do_cp(s, args) ==
    IF Len(args) # 3 THEN Say(s, "Usage: cp")
    ELSE cp_paths(s, resolve_path(args[2], s.CURRENT_DIR, s.ENV),
                  resolve_path(args[3], s.CURRENT_DIR, s.ENV),
                  basename(resolve_path(args[2], s.CURRENT_DIR, s.ENV)))

\* uos.rename(src_path, final_dest_path) and its except OSError
mv_done(s, rn) ==
    IF rn.err # 0 THEN Say(s, "Error moving/renaming")
    ELSE Say([s EXCEPT !.fs = rn.fs], "Moved/Renamed")

mv_paths(s, src_path, dest_path, src_filename) ==
    IF uos_stat(s.fs, src_path) # 0 THEN Say(s, "Error: Source not found")
    ELSE IF IsDir(s.fs, dest_path)
    THEN mv_done(s, uos_rename(s.fs, src_path, into_dir(dest_path, src_filename)))
    ELSE IF Exists(s.fs, dest_path)
    \* dest_path is a file: final_dest_path was assigned on neither path,
    \* and uos.rename(src_path, final_dest_path) raises NameError
    THEN Raise(s, "NameError: final_dest_path")
    ELSE mv_done(s, uos_rename(s.fs, src_path, dest_path))

do_mv(s, args) ==
    IF Len(args) # 3 THEN Say(s, "Usage: mv")
    ELSE mv_paths(s, resolve_path(args[2], s.CURRENT_DIR, s.ENV),
                  resolve_path(args[3], s.CURRENT_DIR, s.ENV),
                  basename(resolve_path(args[2], s.CURRENT_DIR, s.ENV)))

do_exit(s) ==
    IF s.IS_SCRIPTING THEN Say(s, "Warning: exit ignored inside script")
    ELSE Say([s EXCEPT !.SHELL_RUNNING = FALSE], "Exiting MicroShell")

\* do_exec up to the first readline: the flag is set, the file opened; the
\* lines are then read one at a time by ScriptLine
do_exec(s, args) ==
    IF Len(args) < 2 THEN Say(s, "Usage: exec")
    ELSE LET path == resolve_path(args[2], s.CURRENT_DIR, s.ENV)
             on == [s EXCEPT !.IS_SCRIPTING = TRUE]
         IN IF open_read(s.fs, path) # 0
            THEN Say(on, "Error: Script file not found or inaccessible")
            ELSE IF Len(s.stack) >= MaxDepth
            \* except Exception: the flag is cleared, the script abandoned
            THEN Say(s, "Script execution aborted due to error")
            ELSE Say([on EXCEPT !.stack =
                         Append(s.stack, [kind |-> "exec", path |-> path,
                                          rest |-> s.fs[FsCanon(path)].data,
                                          lines |-> <<>>])],
                     "Executing script")

(***************************************************************************)
(* do_edit.  The handler up to its first input() is do_edit; each turn of  *)
(* its loop on one console line is edit_command.                           *)
(***************************************************************************)
\* [line.rstrip('\n') for line in f]
drop_last_empty(pieces) ==
    IF pieces[Len(pieces)] = "" THEN SubSeq(pieces, 1, Len(pieces) - 1)
    ELSE pieces

file_lines(data) == drop_last_empty(split(data, "\n"))

do_edit(s, args) ==
    IF Len(args) < 2 THEN Say(s, "Usage: edit")
    ELSE LET path == resolve_path(args[2], s.CURRENT_DIR, s.ENV)
         IN Say([s EXCEPT !.stack =
                    Append(s.stack,
                           [kind |-> "edit", path |-> path, rest |-> "",
                            lines |-> IF open_read(s.fs, path) = 0
                                      THEN file_lines(s.fs[FsCanon(path)].data)
                                      ELSE <<>>])],
                IF open_read(s.fs, path) = 0 THEN "Editing existing file"
                ELSE "Creating new file")

\* int(text): the value, or a ValueError
RECURSIVE digits_value(_, _)
digits_value(t, acc) ==
    IF t = "" THEN acc
    ELSE digits_value(Tail(t),
                      10 * acc + (CHOOSE d \in 0..9 : Ch(Digits, d + 1) = Ch(t, 1)))

all_digits(t) == t # "" /\ \A i \in 1..Len(t) : InStr(Ch(t, i), Digits)

int_ok(t) ==
    IF Len(t) > 0 /\ Ch(t, 1) \in {"+", "-"} THEN all_digits(Tail(t))
    ELSE all_digits(t)

int_value(t) ==
    IF Ch(t, 1) = "-" THEN 0 - digits_value(Tail(t), 0)
    ELSE IF Ch(t, 1) = "+" THEN digits_value(Tail(t), 0)
    ELSE digits_value(t, 0)

\* command.split(' ', 1)
split_space1(t) == IF InStr(" ", t) THEN split1(t, " ") ELSE <<t>>

EditPop(s) == [s EXCEPT !.stack = SubSeq(s.stack, 1, Len(s.stack) - 1)]

EditBuf(s) == s.stack[Len(s.stack)].lines

EditPath(s) == s.stack[Len(s.stack)].path

SetBuf(s, lines) == [s EXCEPT !.stack[Len(s.stack)].lines = lines]

RemoveAt(q, i) == SubSeq(q, 1, i - 1) \o SubSeq(q, i + 1, Len(q))

\* '\n'.join(lines) without the final newline
buffer_text_joined(lines) == join("\n", lines)

\* '\n'.join(lines), and a final newline if there are lines
buffer_text(lines) == join("\n", lines) \o (IF Len(lines) > 0 THEN "\n" ELSE "")

\* with open(path, 'w') as f: f.write(...), and its except OSError; break
edit_saved(s, ow, text) ==
    IF ow.err # 0 THEN Say(EditPop(s), "Error saving file")
    ELSE Say([EditPop(s) EXCEPT !.fs = Put(ow.fs, FsCanon(EditPath(s)),
                                           FileNode(text))],
             "File saved")

\* lines.append(command)
edit_append(s, command) == Say(SetBuf(s, Append(EditBuf(s), command)), "Appended")

\* the L<N> / D<N> branch testing the upper bound only: a negative index
\* counts from the end of the list
edit_numbered_upper(s, action, idx, parts) ==
    IF idx >= Len(EditBuf(s)) \/ Len(EditBuf(s)) + idx < 0
    THEN Say(s, "Error: out of range")
    ELSE IF action = "D"
    THEN Say(SetBuf(s, RemoveAt(EditBuf(s),
                                IF idx < 0 THEN Len(EditBuf(s)) + idx + 1
                                ELSE idx + 1)), "Line deleted")
    ELSE Say(SetBuf(s, [EditBuf(s) EXCEPT
                           ![IF idx < 0 THEN Len(EditBuf(s)) + idx + 1
                             ELSE idx + 1] =
                               IF Len(parts) > 1 THEN parts[2] ELSE ""]),
             "Line replaced")

\* the L<N> / D<N> branch once line_num is known
edit_numbered(s, action, idx, parts) ==
    IF idx < 0 \/ idx >= Len(EditBuf(s)) THEN Say(s, "Error: out of range")
    ELSE IF action = "D"
    THEN Say(SetBuf(s, RemoveAt(EditBuf(s), idx + 1)), "Line deleted")
    ELSE Say(SetBuf(s, [EditBuf(s) EXCEPT ![idx + 1] =
                           IF Len(parts) > 1 THEN parts[2] ELSE ""]),
             "Line replaced")

edit_action(s, command, parts) ==
    IF ~int_ok(Tail(parts[1]))
    \* except ValueError: print; then the line is appended after all
    THEN edit_append(s, command)
    ELSE edit_numbered(s, IF Ch(parts[1], 1) \in {"L", "l"} THEN "L" ELSE "D",
                       int_value(Tail(parts[1])) - 1, parts)

\* the loop of do_edit writing the buffer when it is left by ---END--- too
edit_command_autosave(s, command) ==
    IF command \in {"---SAVE---", "---END---"}
    THEN edit_saved(s, open_write(s.fs, EditPath(s)), buffer_text(EditBuf(s)))
    ELSE IF command = "" THEN Say(s, "")
    ELSE IF Ch(command, 1) \in {"L", "l", "D", "d"}
    THEN edit_action(s, command, split_space1(command))
    ELSE edit_append(s, command)

\* one turn of the loop of do_edit on the console line command
edit_command(s, command) ==
    IF command = "---SAVE---"
    THEN edit_saved(s, open_write(s.fs, EditPath(s)), buffer_text(EditBuf(s)))
    ELSE IF command = "---END---" THEN Say(EditPop(s), "Exiting editor without saving")
    ELSE IF command = "" THEN Say(s, "")
    ELSE IF Ch(command, 1) \in {"L", "l", "D", "d"}
    THEN edit_action(s, command, split_space1(command))
    ELSE edit_append(s, command)

\* the keys of COMMANDS
COMMANDS ==
    {"help", "clear", "ls", "cd", "pwd", "cat", "echo", "mkdir", "rm", "mv",
     "cp", "du", "df", "ps", "alias", "export", "env", "touch", "edit", "exec",
     "wifi", "ping", "curl", "ifconfig", "reboot", "exit"}

\* command_func(parts); the handlers that only print leave the session as is
Dispatch(s, command, parts) ==
    CASE command = "cd" -> do_cd(s, parts)
      [] command = "exit" -> do_exit(s)
      [] command = "exec" -> do_exec(s, parts)
      [] command = "export" -> do_export(s, parts)
      [] command = "alias" -> do_alias(s, parts)
      [] command = "mkdir" -> do_mkdir(s, parts)
      [] command = "rm" -> do_rm(s, parts)
      [] command = "cp" -> do_cp(s, parts)
      [] command = "mv" -> do_mv(s, parts)
      [] command = "edit" -> do_edit(s, parts)
      [] OTHER -> Say(s, "printed")

\* the handler's exception ending the shell instead of being reported
pe_except_fatal(s) ==
    [s EXCEPT !.raised = FALSE, !.caught = TRUE, !.SHELL_RUNNING = FALSE]

\* except Exception as e: print
pe_except(s) == [s EXCEPT !.raised = FALSE, !.caught = TRUE]

pe_finish(ran) == IF ran.raised THEN pe_except(ran) ELSE ran

\* 4. look the command up and call its handler
pe_dispatch(s, parts, command) ==
    IF command \notin COMMANDS
    THEN [s EXCEPT !.cmd = "?", !.msg = "Command not found"]
    ELSE pe_finish(Dispatch([s EXCEPT !.cmd = command], command, parts))

pe_parts(s, parts) ==
    IF Len(parts) = 0 THEN s ELSE pe_dispatch(s, parts, lower(parts[1]))

\* 3. the line with its first token replaced by the alias's value
pe_alias(s, expanded_line, parts, command) ==
    IF command \in DOMAIN s.ALIASES
    THEN pe_parts(s, words(s.ALIASES[command] \o " "
                           \o lstrip(SubSeq(expanded_line, Len(command) + 1,
                                            Len(expanded_line)))))
    ELSE pe_dispatch(s, parts, command)

\* 2. split into arguments
pe_words(s, expanded_line, parts) ==
    IF Len(parts) = 0 THEN s
    ELSE pe_alias(s, expanded_line, parts, lower(parts[1]))

\* 1. expand variables
pe_line(s, line) ==
    IF line = "" THEN s
    ELSE pe_words(s, expand_variables(line, s.ENV),
                  words(expand_variables(line, s.ENV)))

parse_and_execute(s, command_line) ==
    pe_line([s EXCEPT !.cmd = "", !.msg = "", !.raised = FALSE,
                      !.caught = FALSE],
            strip(command_line))

(***************************************************************************)
(* The session's globals as the module sets them (main.py:14-24).          *)
(***************************************************************************)
InitENV ==
    [n \in {"USER", "HOME", "PATH", "VERSION"} |->
        CASE n = "USER" -> "micropython"
          [] n = "HOME" -> "/"
          [] n = "PATH" -> "/bin:/usr/bin"
          [] n = "VERSION" -> "4.5"]

NoStep == [cmd |-> "", msg |-> "", caught |-> FALSE, in_script |-> FALSE]

Globals ==
    /\ CURRENT_DIR = "/"
    /\ SHELL_RUNNING = TRUE
    /\ IS_SCRIPTING = FALSE
    /\ ALIASES = <<>>
    /\ ENV = InitENV
    /\ stack = <<>>
    /\ last = NoStep
    /\ steps = 0

(***************************************************************************)
(* SpecFs: rm_recursive and cp_recursive applied once to a tree, with      *)
(* every choice of entries whose modification the device refuses and both  *)
(* listing orders.                                                         *)
(***************************************************************************)
Tree(dirs, files) ==
    [p \in dirs \cup DOMAIN files |->
        IF p \in dirs THEN DirNode ELSE FileNode(files[p])]

TreeA ==
    Tree({"/", "/a", "/a/d", "/t", "/t/f"},
         [p \in {"/a/d/g", "/a/f", "/a/h", "/k"} |->
            CASE p = "/a/d/g" -> "z"
              [] p = "/a/f" -> "xy"
              [] p = "/a/h" -> ""
              [] p = "/k" -> "old"])

TreeB ==
    Tree({"/", "/a", "/e"}, [p \in {"/a/f"} |-> "xy"])

FsTrees == {TreeA, TreeB}

FsFaultable == {"/a/f", "/a/d/g", "/a/d", "/n", "/n/f"}

CpSources == {"/a", "/a/", "/a/f", "/a/d", "/zz"}

CpDests == {"/t", "/n", "/n/m", "/k", "/a/d/x", "/a/f", "/a/n"}

RmPaths == {"/a", "/a/", "/a/f", "/a/d", "/t", "/", "/zz"}

NoRes == [done |-> FALSE, ret |-> FALSE, exc |-> FALSE, log |-> <<>>,
          before |-> <<>>]

InitFs ==
    /\ Globals
    /\ fs \in FsTrees
    /\ faulty \in SUBSET FsFaultable
    /\ listRev \in BOOLEAN
    /\ call \in [op : {"cp"}, src : CpSources, dest : CpDests]
            \cup [op : {"rm"}, src : RmPaths, dest : {""}]
    /\ res = NoRes

CallCp ==
    /\ call.op = "cp" /\ ~res.done
    /\ LET r == cp_recursive(fs, call.src, call.dest, 1)
       IN /\ fs' = r.fs
          /\ res' = [done |-> TRUE, ret |-> r.ret, exc |-> r.exc,
                     log |-> r.log, before |-> fs]
    /\ UNCHANGED <<CURRENT_DIR, SHELL_RUNNING, IS_SCRIPTING, ALIASES, ENV,
                   stack, last, steps, faulty, listRev, call>>

CallRm ==
    /\ call.op = "rm" /\ ~res.done
    /\ LET r == rm_recursive(fs, call.src)
       IN /\ fs' = r.fs
          /\ res' = [done |-> TRUE, ret |-> r.ret, exc |-> FALSE,
                     log |-> r.log, before |-> fs]
    /\ UNCHANGED <<CURRENT_DIR, SHELL_RUNNING, IS_SCRIPTING, ALIASES, ENV,
                   stack, last, steps, faulty, listRev, call>>

NextFs == CallCp \/ CallRm

SpecFs == InitFs /\ [][NextFs]_vars

(***************************************************************************)
(* Spec: run_shell.  The device starts with the directories that           *)
(* initialize_filesystem ensures, a directory /a with a file, a file /k    *)
(* and two scripts.  Each console read draws one line from Lines, or the   *)
(* end of input, or an interrupt.  A do_exec or do_edit in progress is a   *)
(* frame of stack, the innermost last: the loop of do_exec reads one line  *)
(* of its script per step, the loop of do_edit one line of the console.    *)
(***************************************************************************)
ScriptS == "# outer\n\nexec /t\nEXIT\nexit now\ncd /a\n"

ScriptT == "q\n  # inner\ncd /zz\ncd /usr\n"

ShellTree ==
    Tree({"/", "/bin", "/usr", "/usr/bin", "/a"},
         [p \in {"/a/f", "/k", "/s", "/t"} |->
            CASE p = "/a/f" -> "xy"
              [] p = "/k" -> "old"
              [] p = "/s" -> ScriptS
              [] p = "/t" -> ScriptT])

Lines ==
    {"exec /s", "exec /zz", "exit", "alias q=exit", "frob", "mv /a/f /k",
     "cd a", "cd ..", "cd /k", "cd $X", "export X=/usr/", "export USER",
     "rm -rf /a", "cp /a /n", "mkdir /a/n", "edit /k", "edit /a"}

\* the lines typed at the EDIT>> prompt
EditLines == {"---SAVE---", "---END---", "", "hi", "L1 x y", "D1", "Dog", "l9"}

NoCall == [op |-> "", src |-> "", dest |-> ""]

Init ==
    /\ Globals
    /\ fs = ShellTree
    /\ faulty = {}
    /\ listRev = FALSE
    /\ call = NoCall
    /\ res = NoRes

Session ==
    [CURRENT_DIR |-> CURRENT_DIR, SHELL_RUNNING |-> SHELL_RUNNING,
     IS_SCRIPTING |-> IS_SCRIPTING, ALIASES |-> ALIASES, ENV |-> ENV,
     fs |-> fs, stack |-> stack, cmd |-> "", msg |-> "", raised |-> FALSE,
     caught |-> FALSE]

Assign(r, in_script) ==
    /\ CURRENT_DIR' = r.CURRENT_DIR
    /\ SHELL_RUNNING' = r.SHELL_RUNNING
    /\ IS_SCRIPTING' = r.IS_SCRIPTING
    /\ ALIASES' = r.ALIASES
    /\ ENV' = r.ENV
    /\ fs' = r.fs
    /\ stack' = r.stack
    /\ last' = [cmd |-> r.cmd, msg |-> r.msg, caught |-> r.caught,
                in_script |-> in_script]

Commit(r, in_script) ==
    /\ Assign(r, in_script)
    /\ UNCHANGED <<faulty, listRev, call, res>>

AtPrompt == SHELL_RUNNING /\ stack = <<>>

\* PWD bound by the loop only while it is not bound yet
WithPWD_unbound(s) ==
    IF "PWD" \in DOMAIN s.ENV THEN s
    ELSE [s EXCEPT !.ENV = Bind(s.ENV, "PWD", s.CURRENT_DIR)]

\* ENV['PWD'] = CURRENT_DIR, the first statement of the loop body
WithPWD(s) == [s EXCEPT !.ENV = Bind(s.ENV, "PWD", s.CURRENT_DIR)]

\* prompt = f"{ENV['USER']}@{ENV['VERSION']}:{CURRENT_DIR} # "
CanPrompt == {"USER", "VERSION"} \subseteq DOMAIN ENV

\* command_line = input(prompt); parse_and_execute(command_line)
PromptLine ==
    /\ AtPrompt
    /\ CanPrompt
    /\ steps < MaxSteps
    /\ \E line \in Lines : Commit(parse_and_execute(WithPWD(Session), line), FALSE)
    /\ steps' = steps + 1

\* except EOFError: do_exit(None)
PromptEOF ==
    /\ AtPrompt
    /\ CanPrompt
    /\ Commit(do_exit([WithPWD(Session) EXCEPT !.cmd = "exit"]), FALSE)
    /\ UNCHANGED steps

\* except KeyboardInterrupt: print
PromptInterrupt ==
    /\ AtPrompt
    /\ CanPrompt
    /\ Commit(Say(WithPWD(Session), "Shell interrupted"), FALSE)
    /\ UNCHANGED steps

\* the prompt's KeyError: except Exception: print("Runtime error"), and the
\* loop turns again without a read
PromptError ==
    /\ AtPrompt
    /\ ~CanPrompt
    /\ Commit(Say(WithPWD(Session), "Runtime error"), FALSE)
    /\ UNCHANGED steps

\* f.readline(): the next line with its newline, "" at the end of the file
readline(rest) ==
    IF InStr("\n", rest) THEN SubSeq(rest, 1, IndexOf(rest, "\n")) ELSE rest

Top == stack[Len(stack)]

\* the loop of do_exec given up at the first line that is unknown or raises
script_stopped(r) ==
    IF r.cmd = "?" \/ r.caught
    THEN [r EXCEPT !.stack = SubSeq(r.stack, 1, Len(r.stack) - 1),
                   !.IS_SCRIPTING = FALSE]
    ELSE r

script_line_stop(s, raw) ==
    IF startswith(strip(raw), "#") \/ strip(raw) = ""
    THEN [s EXCEPT !.cmd = "", !.msg = "", !.caught = FALSE]
    ELSE IF lower(strip(raw)) = "exit"
    THEN [s EXCEPT !.cmd = "exit-line", !.caught = FALSE,
                   !.msg = "Warning: exit ignored inside script"]
    ELSE script_stopped(parse_and_execute(s, strip(raw)))

\* one turn of the loop of do_exec on a line of the script
script_line(s, raw) ==
    LET command == strip(raw)
    IN IF startswith(command, "#") \/ command = ""
       THEN [s EXCEPT !.cmd = "", !.msg = "", !.caught = FALSE]
       ELSE IF lower(command) = "exit"
       THEN [s EXCEPT !.cmd = "exit-line", !.caught = FALSE,
                      !.msg = "Warning: exit ignored inside script"]
       ELSE parse_and_execute(s, command)

ScriptLine ==
    /\ stack # <<>>
    /\ Top.kind = "exec"
    /\ Top.rest # ""
    /\ LET raw == readline(Top.rest)
           read == [Session EXCEPT !.stack[Len(stack)].rest =
                        SubSeq(Top.rest, Len(raw) + 1, Len(Top.rest))]
       IN Commit(script_line(read, raw), TRUE)
    /\ UNCHANGED steps

\* if not command: break; IS_SCRIPTING = False; do_exec returns
ScriptEnd ==
    /\ stack # <<>>
    /\ Top.kind = "exec"
    /\ Top.rest = ""
    /\ Commit([Session EXCEPT !.IS_SCRIPTING = FALSE,
                              !.stack = SubSeq(stack, 1, Len(stack) - 1),
                              !.cmd = "exec-end",
                              !.msg = "Script finished"], TRUE)
    /\ UNCHANGED steps

\* some do_exec is in progress
InScript == \E i \in 1..Len(stack) : stack[i].kind = "exec"

\* command = input("EDIT>> ") and the rest of the loop body
EditLine ==
    /\ stack # <<>>
    /\ Top.kind = "edit"
    /\ steps < MaxSteps
    /\ \E command \in EditLines :
          Commit(edit_command([Session EXCEPT !.cmd = "edit"], command), InScript)
    /\ steps' = steps + 1

\* except EOFError: print; break
EditEOF ==
    /\ stack # <<>>
    /\ Top.kind = "edit"
    /\ Commit(Say(EditPop([Session EXCEPT !.cmd = "edit"]),
                  "Exiting editor (unsaved)"), InScript)
    /\ UNCHANGED steps

\* KeyboardInterrupt in input("EDIT>> "): no handler below run_shell's
\* catches it, so every call in progress is abandoned
EditInterrupt ==
    /\ stack # <<>>
    /\ Top.kind = "edit"
    /\ Commit(Say([Session EXCEPT !.stack = <<>>, !.cmd = "edit"],
                  "Shell interrupted"), InScript)
    /\ UNCHANGED steps

Next ==
    \/ PromptLine
    \/ PromptEOF
    \/ PromptInterrupt
    \/ PromptError
    \/ ScriptLine
    \/ ScriptEnd
    \/ EditLine
    \/ EditEOF
    \/ EditInterrupt

Spec == Init /\ [][Next]_vars

(***************************************************************************)
(* SpecPath: resolve_path applied to a token in a working directory the    *)
(* shell can be in.  The shell starts at "/" on the device's filesystem;   *)
(* PathCd is do_cd on a token, PathResolve a call of resolve_path that     *)
(* only records its result.                                                *)
(***************************************************************************)
PathTokens ==
    {"/usr", "//usr", "/usr//", "/usr/bin", "/a/..", "/k", "bin", "usr/",
     "usr//bin", "..", ".", "./", "../", "../usr", "../a/./", "../../x",
     "a/../usr", "usr/..", "$HOME", "$NOPE"}

NoPath == [cwd |-> "", out |-> ""]

InitPath ==
    /\ Globals
    /\ fs = ShellTree
    /\ faulty = {}
    /\ listRev = FALSE
    /\ call = NoCall
    /\ res = NoPath

\* the call recorded: the token, the directory it was made in, its result
PathCall(op, token) ==
    /\ call' = [op |-> op, src |-> token, dest |-> ""]
    /\ res' = [cwd |-> CURRENT_DIR,
               out |-> resolve_path(token, CURRENT_DIR, ENV)]

PathCdDone(r, token) ==
    /\ CURRENT_DIR' = r.CURRENT_DIR
    /\ last' = [cmd |-> "cd", msg |-> r.msg, caught |-> FALSE,
                in_script |-> FALSE]
    /\ PathCall("cd", token)

PathCd ==
    /\ steps < MaxCd
    /\ \E token \in PathTokens : PathCdDone(do_cd(Session, <<"cd", token>>), token)
    /\ steps' = steps + 1
    /\ UNCHANGED <<SHELL_RUNNING, IS_SCRIPTING, ALIASES, ENV, fs, stack,
                   faulty, listRev>>

PathResolve ==
    /\ \E token \in PathTokens : PathCall("resolve", token)
    /\ UNCHANGED <<CURRENT_DIR, SHELL_RUNNING, IS_SCRIPTING, ALIASES, ENV, fs,
                   stack, last, steps, faulty, listRev>>

NextPath ==
    \/ PathCd
    \/ PathResolve

SpecPath == InitPath /\ [][NextPath]_vars

(***************************************************************************)
(* SpecMove: cp and mv lines typed at the prompt of a fresh shell, with    *)
(* the tokens of the line recorded in call.                                *)
(***************************************************************************)
MoveSources == {"/a/f", "/a", "/k", "/zz", "/"}

MoveDests == {"/usr", "/usr/bin/", "/k", "/n", "/a/f", "/a"}

MoveLine ==
    /\ AtPrompt
    /\ steps < MaxMoves
    /\ \E op \in {"cp", "mv"}, a \in MoveSources, b \in MoveDests :
          /\ Assign(parse_and_execute(WithPWD(Session),
                                      op \o " " \o a \o " " \o b), FALSE)
          /\ call' = [op |-> op, src |-> a, dest |-> b]
    /\ steps' = steps + 1
    /\ UNCHANGED <<faulty, listRev, res>>

NextMove == MoveLine

SpecMove == Init /\ [][NextMove]_vars

(***************************************************************************)
(* SpecDu: du_recursive applied once to a path of a tree, for every size   *)
(* the device may report for a directory and every choice of entries whose *)
(* stat fails during the scan.                                             *)
(***************************************************************************)
TreeM ==
    Tree({"/", "/m", "/e"},
         [p \in {"/m/x", "/m/y", "/m/z"} |->
            CASE p = "/m/x" -> "0123456789"
              [] p = "/m/y" -> "01234567890123456789"
              [] p = "/m/z" -> "012345678901234567890123456789"])

DuTrees == {TreeA, TreeM}

DuPaths == {"/", "/m", "/m/", "/m/y", "/a", "/a/d", "/zz"}

DuFaultable == {"/m/y", "/a/d", "/a/f"}

DirSizes == {0, 1, 2}

NoDu == [done |-> FALSE, ret |-> 0, warn |-> {}, failed |-> FALSE]

InitDu ==
    /\ Globals
    /\ fs \in DuTrees
    /\ faulty = {}
    /\ listRev \in BOOLEAN
    /\ call \in [op : {"du"}, src : DuPaths, dest : {""}, dsize : DirSizes,
                  gone : SUBSET DuFaultable, bad : SUBSET DuFaultable]
    /\ res = NoDu

DuReturned(r) ==
    res' = [done |-> TRUE, ret |-> r.ret, warn |-> r.warn, failed |-> r.failed]

CallDu ==
    /\ call.op = "du" /\ ~res.done
    /\ DuReturned(du_recursive(fs, call.src, call))
    /\ UNCHANGED <<CURRENT_DIR, SHELL_RUNNING, IS_SCRIPTING, ALIASES, ENV, fs,
                   stack, last, steps, faulty, listRev, call>>

NextDu == CallDu

SpecDu == InitDu /\ [][NextDu]_vars

(***************************************************************************)
(* SpecExpand: expand_variables applied once to a line, under a variable   *)
(* table that export commands can build from the initial one.              *)
(***************************************************************************)
ExpandEnvs ==
    {InitENV,
     Bind(InitENV, "HOME", "/home/user"),
     Bind(InitENV, "A", "$A"),
     Bind(Bind(InitENV, "A", "$B"), "B", "xy"),
     Bind(Bind(InitENV, "MY_V", "v"), "MY", "$HOME"),
     Bind(Bind(InitENV, "B", "b"), "HOMEX", "hx")}

ExpandTexts ==
    {"cd $HOME/data", "$FOO", "echo $A$B", "$A", "a$", "$$HOME", "$MY_V/x",
     "$HOMEX", "${HOME}", "$HOME$HOME", "x $B_ y", "$B$B$A.", "ls", "$MY$MY_V",
     "$ HOME", "$USER@$VERSION", "$home", "$A $FOO $B", "-$B-", "$HOME_"}

NoExpand == [done |-> FALSE, out |-> ""]

InitExpand ==
    /\ Globals
    /\ fs = ShellTree
    /\ faulty = {}
    /\ listRev = FALSE
    /\ call \in [op : {"expand"}, src : ExpandTexts, dest : {""},
                  env : ExpandEnvs]
    /\ res = NoExpand

CallExpand ==
    /\ call.op = "expand" /\ ~res.done
    /\ res' = [done |-> TRUE, out |-> expand_variables(call.src, call.env)]
    /\ UNCHANGED <<CURRENT_DIR, SHELL_RUNNING, IS_SCRIPTING, ALIASES, ENV, fs,
                   stack, last, steps, faulty, listRev, call>>

NextExpand == CallExpand

SpecExpand == InitExpand /\ [][NextExpand]_vars

(***************************************************************************)
(* SpecAlias: lines typed at the prompt of a fresh shell that define       *)
(* aliases and use them, the line typed recorded in call.                  *)
(***************************************************************************)
AliasLines ==
    {"alias ll=ls", "alias c=cd", "alias x=c", "alias a=b", "alias b=a",
     "alias s=s", "alias q=exit", "export X=c", "ll /tmp", "c /usr",
     "c   /usr/bin  ", "C /a", "x /usr", "a x", "s", "$X /a", "q",
     "alias LL=ls", "LL /tmp"}

AliasLine ==
    /\ AtPrompt
    /\ CanPrompt
    /\ steps < MaxAlias
    /\ \E line \in AliasLines :
          /\ Assign(parse_and_execute(WithPWD(Session), line), FALSE)
          /\ call' = [op |-> "line", src |-> line, dest |-> ""]
    /\ steps' = steps + 1
    /\ UNCHANGED <<faulty, listRev, res>>

NextAlias == AliasLine

SpecAlias == Init /\ [][NextAlias]_vars

(***************************************************************************)
(* SpecCopy: cp_recursive called on a regular file /src of a given length, *)
(* the destination /dst absent or holding earlier content.                 *)
(***************************************************************************)
Pattern == "0123456789abc"

RECURSIVE Rep(_, _)
Twice(text) == text \o text

Rep(text, n) ==
    IF n = 0 THEN ""
    ELSE IF n % 2 = 0 THEN Twice(Rep(text, n \div 2))
    ELSE text \o Rep(text, n - 1)

\* n bytes, no two chunks of them alike
Bytes(n) == SubSeq(Rep(Pattern, n \div Len(Pattern) + 1), 1, n)

CopyLengths ==
    {0, 1, 2, 3, 5, 100, 511, 512, 513, 700, 1023, 1024, 1025, 1300, 1536,
     2000, 2048}

CopyOld == {"old", Rep("z", 600), Rep("yz", 550)}

CopyTrees ==
    {[p \in {"/", "/src"} |-> IF p = "/" THEN DirNode ELSE FileNode(Bytes(n))] :
        n \in CopyLengths}
    \cup {[p \in {"/", "/src", "/dst"} |->
              IF p = "/" THEN DirNode
              ELSE IF p = "/src" THEN FileNode(Bytes(n)) ELSE FileNode(old)] :
             n \in CopyLengths, old \in CopyOld}

InitCopy ==
    /\ Globals
    /\ fs \in CopyTrees
    /\ faulty = {}
    /\ listRev = FALSE
    /\ call = [op |-> "cp", src |-> "/src", dest |-> "/dst"]
    /\ res = NoRes

SpecCopy == InitCopy /\ [][CallCp]_vars

(***************************************************************************)
(* SpecEnv: export, alias and cd lines typed at the prompt of a fresh      *)
(* shell, among them assignments with an empty name or an empty value,     *)
(* assignments to PWD and a variable whose value is a variable reference.  *)
(***************************************************************************)
EnvLines ==
    {"export =x", "export A=", "export A=''", "export A='\"", "alias =ls",
     "alias a=", "alias a=\"\"", "alias a=ls", "export B=/usr",
     "export A=$B", "cd $A", "export PWD=/x", "export PWD",
     "export Y=$PWD", "cd /usr"}

EnvLine ==
    /\ AtPrompt
    /\ CanPrompt
    /\ steps < MaxEnv
    /\ \E line \in EnvLines :
          /\ Assign(parse_and_execute(WithPWD(Session), line), FALSE)
          /\ call' = [op |-> "line", src |-> line, dest |-> ""]
    /\ steps' = steps + 1
    /\ UNCHANGED <<faulty, listRev, res>>

NextEnv == EnvLine

SpecEnv == Init /\ [][NextEnv]_vars

(***************************************************************************)
(* SpecEdit: one editor session.  A fresh shell reads an edit command at   *)
(* the prompt, then the editor reads console lines until it is left; the   *)
(* line read is recorded in call.src.                                      *)
(***************************************************************************)
EditOpens == {"edit /k", "edit /t", "edit /e", "edit /a"}

EditInputs ==
    {"", "a", "b", "L1 x", "D2", "D0", "L-1 z", "D9", "l3 w y",
     "---SAVE---", "---END---"}

EditOpen ==
    /\ AtPrompt
    /\ CanPrompt
    /\ call = NoCall
    /\ \E line \in EditOpens :
          /\ Assign(parse_and_execute(WithPWD(Session), line), FALSE)
          /\ call' = [op |-> "open", src |-> line, dest |-> ""]
    /\ UNCHANGED <<steps, faulty, listRev, res>>

EditType ==
    /\ stack # <<>>
    /\ Top.kind = "edit"
    /\ steps < MaxEdits
    /\ \E command \in EditInputs :
          /\ Assign(edit_command([Session EXCEPT !.cmd = "edit"], command), FALSE)
          /\ call' = [op |-> "type", src |-> command, dest |-> ""]
    /\ steps' = steps + 1
    /\ UNCHANGED <<faulty, listRev, res>>

NextEdit ==
    \/ EditOpen
    \/ EditType
    \/ EditEOF
    \/ EditInterrupt

SpecEdit == Init /\ [][NextEdit]_vars

(***************************************************************************)
(* Reading the log of a call.                                              *)
(***************************************************************************)
Fails(log) == {i \in 1..Len(log) : log[i].ev = "fail"}

FirstFail(log) == CHOOSE i \in Fails(log) : \A j \in Fails(log) : i <= j

\* an entry was copied or removed at position i of the log
Acted(log, i) == log[i].ev \in {"mkdir", "exists", "file", "rmdir", "remove"}

NothingAfterFirstFail(log) ==
    Fails(log) # {} => \A i \in 1..Len(log) : i > FirstFail(log) => ~Acted(log, i)

CpDone == call.op = "cp" /\ res.done

RmDone == call.op = "rm" /\ res.done

\* C1: cp_recursive on a directory aborts on the first failure: when the copy
\* of any entry of the subtree fails, the top-level call returns False and no
\* entry after the failed one is copied.
C1_CpAbortsOnFirstFailure ==
    (CpDone /\ IsDir(res.before, call.src) /\ Fails(res.log) # {})
        => (~res.ret /\ NothingAfterFirstFail(res.log))

\* C2: rm_recursive on a directory is abort-on-first-error: when the removal
\* of a child fails, the call returns failure and nothing listed after the
\* failed child is removed.
C2_RmAbortsOnFirstFailure ==
    (RmDone /\ IsDir(res.before, call.src) /\ Fails(res.log) # {})
        => (~res.ret /\ NothingAfterFirstFail(res.log))

Under(q, root) == q = FsCanon(root) \/ Below(q, root)

\* C3: whenever rm_recursive(path) returns True, neither path nor any path
\* that was under it exists afterwards.
C3_RmTrueLeavesNothing ==
    (RmDone /\ res.ret)
        => /\ uos_stat(fs, call.src) = ENOENT
           /\ \A q \in DOMAIN res.before : Under(q, call.src) => q \notin DOMAIN fs

C3_Witness ==
    /\ RmDone /\ res.ret
    /\ call.src = "/a"
    /\ {"/a/d/g", "/a/f", "/a/h"} \subseteq DOMAIN res.before

\* the path under dest that corresponds to q under src
Image(q, src, dest) ==
    LET a == PathParts(src)
        b == PathParts(q)
    IN FsCanon("/" \o join("/", PathParts(dest) \o SubSeq(b, Len(a) + 1, Len(b))))

SameTree(f, src, dest) ==
    /\ \A q \in DOMAIN f : Under(q, src) =>
          /\ Image(q, src, dest) \in DOMAIN f
          /\ f[Image(q, src, dest)] = f[q]
    /\ \A r \in DOMAIN f : Under(r, dest) =>
          \E q \in DOMAIN f : Under(q, src) /\ Image(q, src, dest) = r

NoPrimitiveFailed ==
    ~res.exc /\ \A i \in 1..Len(res.log) : res.log[i].ev \in {"mkdir", "file"}

CpFresh ==
    /\ CpDone
    /\ NoPrimitiveFailed
    /\ ~Exists(res.before, call.dest)
    /\ ~Under(FsCanon(call.dest), call.src)

\* C4: when no primitive fails, dest did not exist and is neither src nor
\* below src, cp_recursive leaves under dest the directory shape of src and,
\* for every file, the bytes of the source file; src is as it was.
C4_CpRoundTrip ==
    CpFresh =>
        /\ res.ret
        /\ SameTree(fs, call.src, call.dest)
        /\ \A q \in DOMAIN res.before : Under(q, call.src) =>
              q \in DOMAIN fs /\ fs[q] = res.before[q]

C4_Witness ==
    /\ CpFresh
    /\ call.src = "/a" /\ call.dest = "/n"
    /\ {"/n/d/g", "/n/f", "/n/h"} \subseteq DOMAIN fs
    /\ fs["/n/f"].data = "xy"

(***************************************************************************)
(* The interpreter's claims, under Spec.                                   *)
(***************************************************************************)
\* C5: IS_SCRIPTING is cleared whenever an exec command returns, however it
\* ended, so with no exec in progress IS_SCRIPTING is False.
C5_ScriptingClearedAfterExec == ~InScript => ~IS_SCRIPTING

\* C6: while an exec call is in progress no script line sets SHELL_RUNNING
\* to False: after every step of a script the shell is still running.
C6_ExitRefusedInsideScript == last.in_script => SHELL_RUNNING

\* C7: SHELL_RUNNING goes from True to False only in do_exit, and a line at
\* the prompt that names an unknown command or whose handler raises is
\* reported and leaves the loop running, ready for the next read.
C7_LoopEndsOnlyThroughExit ==
    [][/\ (SHELL_RUNNING /\ ~SHELL_RUNNING') => last'.cmd = "exit"
       /\ (AtPrompt /\ CanPrompt /\ (last'.cmd = "?" \/ last'.caught))
             => (AtPrompt' /\ CanPrompt' /\ last'.msg # "")]_vars

C7_Witness ==
    /\ last.caught /\ last.cmd = "mv" /\ ~last.in_script
    /\ AtPrompt /\ CanPrompt
    /\ steps > 1

\* C8: an exit command entered at the interactive prompt, or the end of
\* input at the prompt, sets SHELL_RUNNING to False, whatever was executed
\* before.
C8_ExitAtPromptStops == (last.cmd = "exit" /\ ~last.in_script) => ~SHELL_RUNNING

\* C9: CURRENT_DIR is changed only by the cd command, and only to a path
\* that stats as a directory at that moment; every other command, and a cd
\* to a missing path or to a file, leaves it as it was.
C9_OnlyCdChangesDir ==
    [][CURRENT_DIR' # CURRENT_DIR =>
          /\ last'.cmd = "cd"
          /\ fs' = fs
          /\ IsDir(fs, CURRENT_DIR')]_vars

C9_Witness ==
    /\ CURRENT_DIR = "/usr"
    /\ last.cmd = "cd"
    /\ last.msg = "Error: not a directory"

\* C10: in every reachable state CURRENT_DIR is a non-empty string that
\* starts with "/".
C10_CwdIsAbsolute == Len(CURRENT_DIR) > 0 /\ startswith(CURRENT_DIR, "/")

C10_Witness ==
    /\ CURRENT_DIR = "/a"
    /\ last.cmd = "cd" /\ last.msg = "Changed directory" /\ ~last.in_script

(***************************************************************************)
(* Claims about resolve_path, read off the recorded call of SpecPath.      *)
(***************************************************************************)
PathCalled == call.op \in {"cd", "resolve"}

\* the non-empty segments of a path
Segments(path) == SelectNonEmpty(split(path, "/"))

\* path with every run of separators collapsed to one
RECURSIVE Collapse(_)
Collapse(path) ==
    IF Len(path) < 2 THEN path
    ELSE IF Ch(path, 1) = "/" /\ Ch(path, 2) = "/" THEN Collapse(Tail(path))
    ELSE Ch(path, 1) \o Collapse(Tail(path))

FromSegments(segs) == "/" \o join("/", segs)

\* C11: for an absolute token p, resolve_path(p) is p with every run of
\* repeated separators collapsed to one, whatever the working directory.
C11_AbsoluteCollapsed ==
    (PathCalled /\ startswith(call.src, "/")) => res.out = Collapse(call.src)

\* C12: the path resolve_path returns is "/" or has no trailing "/" and
\* only non-empty segments.
C12_ResolvedWellFormed ==
    PathCalled => res.out = FromSegments(Segments(res.out))

DropLast(q) == IF Len(q) = 0 THEN q ELSE SubSeq(q, 1, Len(q) - 1)

\* C13: resolve_path("..") drops exactly the last segment of the working
\* directory, and at "/" yields "/" again, so repeating it reaches "/" and
\* stays there.
C13_ParentDropsLastSegment ==
    (PathCalled /\ call.src = "..")
        => res.out = FromSegments(DropLast(Segments(res.cwd)))

\* the segments of a token processed in order on the accumulated segments
RECURSIVE SegmentWalk(_, _)
SegmentWalk(acc, segs) ==
    IF Len(segs) = 0 THEN acc
    ELSE IF Head(segs) = ".." THEN SegmentWalk(DropLast(acc), Tail(segs))
    ELSE IF Head(segs) \in {"", "."} THEN SegmentWalk(acc, Tail(segs))
    ELSE SegmentWalk(Append(acc, Head(segs)), Tail(segs))

HasDotDot(token) ==
    \E i \in 1..Len(split(token, "/")) : split(token, "/")[i] = ".."

\* C14: for a relative token with a ".." segment at any position,
\* resolve_path returns "/" plus the segments obtained by walking the
\* token's segments from the working directory's segments.
C14_DotDotAnywhere ==
    (PathCalled /\ ~startswith(call.src, "/") /\ HasDotDot(call.src))
        => res.out = FromSegments(SegmentWalk(Segments(res.cwd),
                                              split(call.src, "/")))

(***************************************************************************)
(* Claims about cp and mv, read off a step of SpecMove: call' holds the    *)
(* tokens of the line, fs and fs' the filesystem before and after.         *)
(***************************************************************************)
LastSegment(path) == Segments(path)[Len(Segments(path))]

\* the destination the operation is to be carried out on
EffectiveDest(f, src, dest) ==
    IF IsDir(f, dest) THEN dest \o "/" \o LastSegment(src) ELSE dest

\* the filesystem left by the operation carried out on target
CarriedOut(f, op, src, target) ==
    IF op = "mv" THEN uos_rename(f, src, target).fs
    ELSE cp_recursive(f, src, target, 1).fs

\* C15: cp and mv of an existing source other than the root are carried
\* out on dest/<basename of source> when dest stats as a directory, and on
\* dest verbatim when dest is absent or an existing regular file.
C15_DestDirOrVerbatim ==
    [][(steps' # steps /\ Exists(fs, call'.src) /\ FsCanon(call'.src) # "/")
          => /\ ~last'.caught
             /\ fs' = CarriedOut(fs, call'.op, call'.src,
                                 EffectiveDest(fs, call'.src, call'.dest))]_vars

\* C16: cp and mv of the root path are rejected with an error and change
\* nothing in the filesystem, whatever the destination is.
C16_RootSourceRejected ==
    [][(steps' # steps /\ FsCanon(call'.src) = "/")
          => /\ fs' = fs
             /\ ~last'.caught
             /\ startswith(last'.msg, "Error")]_vars

(***************************************************************************)
(* Claims about du_recursive, read off the call of SpecDu.                 *)
(***************************************************************************)
DuDone == call.op = "du" /\ res.done

\* the entries whose stat fails during the scan
DuFailing == call.gone \cup call.bad

\* q is path or lies below it
AtOrBelow(q, path) == q = FsCanon(path) \/ Below(q, path)

\* the size stat reports for q
NodeSize(q) == IF fs[q].isdir THEN call.dsize ELSE Len(fs[q].data)

RECURSIVE SumSizes(_)
SumSizes(S) ==
    IF S = {} THEN 0
    ELSE LET q == CHOOSE q \in S : TRUE IN NodeSize(q) + SumSizes(S \ {q})

\* C17: when no primitive fails, du_recursive(path) is the sum of the stat
\* sizes of all files and directories of the tree at path: on a directory
\* its own size plus that of every child, on a file the file's size.
C17_DuSumsTheTree ==
    (DuDone /\ DuFailing = {} /\ Exists(fs, call.src))
        => res.ret = SumSizes({q \in DOMAIN fs : AtOrBelow(q, call.src)})

C17_Witness ==
    /\ DuDone /\ DuFailing = {}
    /\ fs = TreeM /\ call.src = "/m" /\ call.dsize = 2
    /\ res.ret = 62

\* C18: a listed child whose stat fails contributes 0 and the scan goes
\* on: the total is the directory's own size plus the sizes of everything
\* that is not at or below a failing child, and the call returns (it never
\* raises).
C18_DuSkipsFailingChild ==
    (DuDone /\ Exists(fs, call.src) /\ FsCanon(call.src) \notin DuFailing)
        => res.ret = SumSizes({q \in DOMAIN fs :
                                 /\ AtOrBelow(q, call.src)
                                 /\ \A b \in DuFailing : ~AtOrBelow(q, b)})

C18_Witness ==
    /\ DuDone
    /\ fs = TreeM /\ call.src = "/m" /\ call.dsize = 1
    /\ call.gone = {"/m/y"} /\ call.bad = {}
    /\ res.ret = 41

(***************************************************************************)
(* Claims about expand_variables, read off the call of SpecExpand.         *)
(***************************************************************************)
IsNameChar(c) == InStr(c, Upper \o Lowercase \o Digits \o "_")

\* the maximal run of name characters at the head of text
RECURSIVE NameRun(_)
NameRun(text) ==
    IF text # "" /\ IsNameChar(Head(text))
    THEN Head(text) \o NameRun(Tail(text)) ELSE ""

\* the line read once from the left: a bound reference gives its value and
\* the reading goes on after the name, everything else is kept as it is
RECURSIVE OnePass(_, _)
OnePass(text, env) ==
    IF text = "" THEN ""
    ELSE IF Head(text) = "$" /\ NameRun(Tail(text)) \in DOMAIN env
    THEN env[NameRun(Tail(text))]
            \o OnePass(SubSeq(text, 2 + Len(NameRun(Tail(text))), Len(text)), env)
    ELSE Head(text) \o OnePass(Tail(text), env)

\* C19: expand_variables is one pass from the left: "$" with the maximal
\* run of alphanumeric or underscore characters naming a bound variable
\* becomes the value, an unbound reference stays as typed, the inserted
\* value is not scanned again, and the pass ends for every line and table.
C19_ExpandIsOnePass ==
    (call.op = "expand" /\ res.done) => res.out = OnePass(call.src, call.env)

C19_Witness ==
    /\ call.op = "expand" /\ res.done
    /\ call.src = "cd $HOME/data" /\ call.env["HOME"] = "/home/user"
    /\ res.out = "cd /home/user/data"

(***************************************************************************)
(* Claims about alias expansion, read off a step of SpecAlias: call' holds *)
(* the line typed, the unprimed variables the shell before the line.       *)
(***************************************************************************)
\* the tokens of the line after variable expansion
TypedTokens(line) == words(expand_variables(strip(line), WithPWD(Session).ENV))

\* the line's first token is a bound alias
AliasHit(line) ==
    /\ Len(TypedTokens(line)) > 0
    /\ TypedTokens(line)[1] \in DOMAIN ALIASES

\* the alias's value followed by the rest of the line, dispatched as it is
Substituted(line) ==
    pe_parts(WithPWD(Session),
             words(ALIASES[TypedTokens(line)[1]]) \o Tail(TypedTokens(line)))

SameOutcome(r) ==
    /\ CURRENT_DIR' = r.CURRENT_DIR
    /\ SHELL_RUNNING' = r.SHELL_RUNNING
    /\ ALIASES' = r.ALIASES
    /\ ENV' = r.ENV
    /\ fs' = r.fs
    /\ last'.cmd = r.cmd
    /\ last'.msg = r.msg

\* C20: a line whose first token is a bound alias is dispatched as the
\* alias's value followed by the rest of the line; the command looked up
\* is the first token of the value, and it is not expanded again even if
\* it names an alias itself.
C20_AliasExpandedOnce ==
    [][(steps' # steps /\ AliasHit(call'.src))
          => SameOutcome(Substituted(call'.src))]_vars

\* the assignment argument of an export or alias line just typed
AssignArg == TypedTokens(call'.src)[2]

IsAssignment ==
    /\ Len(TypedTokens(call'.src)) > 1
    /\ TypedTokens(call'.src)[1] \in {"export", "alias"}
    /\ InStr("=", AssignArg)

\* nothing before the first "=", or nothing but quote characters after it
EmptyName == Ch(AssignArg, 1) = "="

EmptyValue ==
    \A i \in (IndexOf(AssignArg, "=") + 1)..Len(AssignArg) :
        Ch(AssignArg, i) \in {"'", "\""}

\* C21: an export or alias assignment whose name is empty, or whose value is
\* empty once its quotes are stripped, prints the usage message and leaves
\* the variable table (as the prompt set it) and the alias table as they were
C21_EmptyAssignmentRejected ==
    [][(IsAssignment /\ (EmptyName \/ EmptyValue)) =>
           /\ ENV' = WithPWD(Session).ENV
           /\ ALIASES' = ALIASES
           /\ last'.msg = "Usage: " \o TypedTokens(call'.src)[1]]_vars

C21_Witness ==
    /\ call.op = "line"
    /\ call.src \in {"export A=''", "alias a=\"\""}
    /\ last.msg \in {"Usage: export", "Usage: alias"}
    /\ "B" \in DOMAIN ENV
    /\ "A" \notin DOMAIN ENV
    /\ "a" \notin DOMAIN ALIASES

\* the editor read the console line call'.src in this step
TypedAny == call'.op = "type" /\ steps' = steps + 1

Typed(command) == TypedAny /\ call'.src = command

\* C22: an empty console line in the editor appends an empty line to the
\* buffer: the buffer grows by one and its new last line is the empty string
C22_EmptyInputAppends ==
    [][Typed("") => /\ Len(stack') = Len(stack)
                    /\ Top'.lines = Append(Top.lines, "")]_vars

\* the console line is L<N> or D<N>, N an integer, maybe followed by text
Numbered(command) ==
    /\ command # ""
    /\ Ch(command, 1) \in {"L", "l", "D", "d"}
    /\ int_ok(Tail(split_space1(command)[1]))

LineNo(command) == int_value(Tail(split_space1(command)[1]))

\* C23: a replace or delete command whose line number is outside
\* 1..len(buffer) leaves the buffer as it was, reports the error and leaves
\* the editor reading the next line
C23_OutOfRangeRefused ==
    [][(TypedAny /\ Numbered(call'.src)
          /\ LineNo(call'.src) \notin 1..Len(Top.lines)) =>
           /\ stack' = stack
           /\ last'.msg = "Error: out of range"]_vars

C23_Witness ==
    /\ call.op = "type"
    /\ call.src \in {"D0", "L-1 z"}
    /\ stack # <<>>
    /\ Top.kind = "edit"
    /\ Len(Top.lines) = 2
    /\ last.msg = "Error: out of range"

\* the editor is left by the abort sentinel or by end of input
Aborted ==
    /\ stack # <<>>
    /\ stack' = <<>>
    /\ last'.msg \in {"Exiting editor without saving", "Exiting editor (unsaved)"}

\* C24: leaving the editor by ---END--- or by end of input writes nothing,
\* and neither does any edit before it: the filesystem is still the one the
\* session started with, an existing file unchanged and a new one not created
C24_AbortWritesNothing ==
    [][(Aborted => fs' = ShellTree)
       /\ (fs' # fs => Typed("---SAVE---"))]_vars

C24_Witness ==
    /\ call = [op |-> "type", src |-> "---END---", dest |-> ""]
    /\ stack = <<>>
    /\ steps > 2
    /\ last.msg = "Exiting editor without saving"
    /\ fs = ShellTree

\* every line followed by one newline
RECURSIVE Text(_)
Text(lines) == IF lines = <<>> THEN "" ELSE Head(lines) \o "\n" \o Text(Tail(lines))

Without(lines, n) ==
    [i \in 1..(Len(lines) - 1) |-> IF i < n THEN lines[i] ELSE lines[i + 1]]

Replaced(lines, n, text) ==
    [i \in 1..Len(lines) |-> IF i = n THEN text ELSE lines[i]]

\* what follows the first space of the console line
TextOf(command) ==
    IF InStr(" ", command)
    THEN SubSeq(command, IndexOf(command, " ") + 1, Len(command))
    ELSE ""

InRange(command) == Numbered(command) /\ LineNo(command) \in 1..Len(Top.lines)

PlainText(command) ==
    /\ command \notin {"", "---SAVE---", "---END---"}
    /\ Ch(command, 1) \notin {"L", "l", "D", "d"}

\* C25: a line of text is appended as the last line, L<N> text replaces line
\* N only, D<N> removes line N only, and ---SAVE--- leaves the editor with
\* the file holding every buffer line followed by one newline (nothing for an
\* empty buffer)
C25_SavePersistsBuffer ==
    [][TypedAny =>
         /\ PlainText(call'.src) =>
                /\ Len(stack') = 1
                /\ Top'.lines = Append(Top.lines, call'.src)
         /\ (InRange(call'.src) /\ Ch(call'.src, 1) \in {"L", "l"}) =>
                /\ Len(stack') = 1
                /\ Top'.lines = Replaced(Top.lines, LineNo(call'.src),
                                         TextOf(call'.src))
         /\ (InRange(call'.src) /\ Ch(call'.src, 1) \in {"D", "d"}) =>
                /\ Len(stack') = 1
                /\ Top'.lines = Without(Top.lines, LineNo(call'.src))
         /\ (call'.src = "---SAVE---" /\ ~IsDir(fs, Top.path)) =>
                /\ stack' = <<>>
                /\ IsFile(fs', Top.path)
                /\ fs'[FsCanon(Top.path)].data = Text(Top.lines)
                /\ \A p \in DOMAIN fs' \ {FsCanon(Top.path)} :
                       p \in DOMAIN fs /\ fs'[p] = fs[p]]_vars

\* a new file saved after four edits holds the single line x, as after
\* a, b, L1 x, D2
C25_Witness ==
    /\ call = [op |-> "type", src |-> "---SAVE---", dest |-> ""]
    /\ steps = 5
    /\ last.msg = "File saved"
    /\ fs = Put(ShellTree, "/e", FileNode("x\n"))

\* the next line of the script being read, without its newline, and the
\* lines after it
FirstLine(text) ==
    IF InStr("\n", text) THEN SubSeq(text, 1, IndexOf(text, "\n") - 1) ELSE text

AfterFirstLine(text) ==
    IF InStr("\n", text)
    THEN SubSeq(text, IndexOf(text, "\n") + 1, Len(text))
    ELSE ""

\* do_exec is about to read a line of its script
Reading == stack # <<>> /\ Top.kind = "exec" /\ Top.rest # ""

Skippable(line) == strip(line) = "" \/ Ch(strip(line), 1) = "#"

\* C26: each step of a running script takes the next line of the file and
\* leaves the later ones to be read after it, whatever the line did; a blank
\* or comment line changes nothing, every other line is executed
C26_ScriptLinesInOrder ==
    [][Reading =>
         /\ Len(stack') >= Len(stack)
         /\ stack'[Len(stack)] = [Top EXCEPT !.rest = AfterFirstLine(Top.rest)]
         /\ IF Skippable(FirstLine(Top.rest))
            THEN /\ last'.cmd = ""
                 /\ UNCHANGED <<CURRENT_DIR, SHELL_RUNNING, IS_SCRIPTING,
                                ALIASES, ENV, fs>>
                 /\ Len(stack') = Len(stack)
            ELSE last'.cmd # ""]_vars

\* the last line of the script /t was executed after an unknown command, a
\* comment and a command that failed
C26_Witness ==
    /\ stack # <<>>
    /\ Top.kind = "exec"
    /\ Top.path = "/t"
    /\ Top.rest = ""
    /\ last = [cmd |-> "cd", msg |-> "Changed directory", caught |-> FALSE,
               in_script |-> TRUE]
    /\ CURRENT_DIR = "/usr"

\* a line was read at the prompt and executed in this step
LineTyped == call'.op = "line" /\ steps' = steps + 1

\* C27: a line read at the prompt is expanded with PWD bound to the working
\* directory, whatever was exported to PWD or unset before: $PWD in the line
\* stands for CURRENT_DIR, and PWD holds it afterwards unless this very line
\* assigned or unset it
C27_PwdIsCurrentDir ==
    [][LineTyped =>
         /\ call'.src = "export Y=$PWD" =>
                "Y" \in DOMAIN ENV' /\ ENV'["Y"] = CURRENT_DIR
         /\ call'.src \notin {"export PWD=/x", "export PWD"} =>
                "PWD" \in DOMAIN ENV' /\ ENV'["PWD"] = CURRENT_DIR]_vars

C27_Witness ==
    /\ call = [op |-> "line", src |-> "export Y=$PWD", dest |-> ""]
    /\ steps = MaxEnv
    /\ CURRENT_DIR = "/usr"
    /\ "Y" \in DOMAIN ENV
    /\ ENV["Y"] = "/usr"
    /\ ENV["PWD"] = "/usr"

\* the line typed is cd with one argument that, after expansion, still
\* starts with "$"
CdDollar ==
    /\ LineTyped
    /\ Len(TypedTokens(call'.src)) = 2
    /\ TypedTokens(call'.src)[1] = "cd"
    /\ startswith(TypedTokens(call'.src)[2], "$")

\* the argument taken as a literal name in the working directory
LiteralPath ==
    (IF CURRENT_DIR = "/" THEN "/" ELSE CURRENT_DIR \o "/")
        \o TypedTokens(call'.src)[2]

\* C29: text substituted for a variable is not expanded again: cd with an
\* argument that expands to "$B" acts on the literal name "$B" in the working
\* directory, so it changes directory only if that name is a directory
C29_NoSecondExpansion ==
    [][CdDollar => (CURRENT_DIR' = CURRENT_DIR \/ IsDir(fs, LiteralPath))]_vars

\* C30: a line whose first token is exactly the name of a stored alias is
\* expanded: the command looked up is the first word of the alias's value,
\* for upper-case names too
C30_AliasMatchesExactName ==
    [][(LineTyped /\ AliasHit(call'.src)) =>
           last'.cmd =
               IF lower(words(ALIASES[TypedTokens(call'.src)[1]])[1]) \in COMMANDS
               THEN lower(words(ALIASES[TypedTokens(call'.src)[1]])[1])
               ELSE "?"]_vars

\* C28: the copy of a regular file returns True with the destination a file
\* that holds the source's bytes, all of them and in order, and nothing of
\* what it held before, whatever the length of the source
C28_ChunkedCopyIsWholeCopy ==
    (res.done /\ call.src = "/src") =>
        /\ res.ret
        /\ ~res.exc
        /\ IsFile(fs, call.dest)
        /\ fs[FsCanon(call.dest)].data = res.before[FsCanon(call.src)].data
        /\ res.log = <<Event("file", call.src, call.dest)>>

\* 1300 bytes, two whole chunks and a part of one, written over 1100 bytes
C28_Witness ==
    /\ res.done
    /\ call.src = "/src"
    /\ Len(res.before["/src"].data) = 1300
    /\ "/dst" \in DOMAIN res.before
    /\ Len(res.before["/dst"].data) = 1100
    /\ fs["/dst"].data = Bytes(1300)

\* C31: cp leaves the source as it was: every file that was at or under the
\* source path is still there with the content it had, whatever the
\* destination, the source itself and its directory included
C31_CpKeepsSource ==
    [][(steps' # steps /\ call'.op = "cp") =>
           \A q \in DOMAIN fs :
               (AtOrBelow(q, call'.src) /\ ~fs[q].isdir) =>
                   q \in DOMAIN fs' /\ fs'[q] = fs[q]]_vars

\* the directories the call created, and those the source tree had
DirsMade == {q \in DOMAIN fs \ DOMAIN res.before : fs[q].isdir}

SourceDirs ==
    {q \in DOMAIN res.before : Under(q, call.src) /\ res.before[q].isdir}

\* C32: cp_recursive comes to an end by itself, not by the interpreter's
\* recursion limit, and creates no more directories than the source tree
\* had, also when the destination lies inside the source
C32_CpTerminates ==
    CpDone => (~res.exc /\ Cardinality(DirsMade) <= Cardinality(SourceDirs))

====
